---------------------------- MODULE Spec2Model ----------------------------
(***************************************************************************)
(* Model of the ROCm/HIP kernels of                                        *)
(*   orttraining/training_ops/rocm/math/mixed_precision_scale.cu           *)
(*                                                                         *)
(*  - MatMul<T>::ComputeInternal, the batched matrix-multiply dispatcher,  *)
(*    with CanUseStridedBatchedGemm (specification Spec);                  *)
(*  - Impl_MixedPrecisionScale and its kernel _MixedPrecisionScale         *)
(*    (specification SpecScale).                                           *)
(*                                                                         *)
(* MatMulComputeHelper (core/providers/cpu/math/matmul_helper.h), the      *)
(* element-wise index macro and the launch configuration                  *)
(* (core/providers/rocm/cu_inc/common.cuh) are not part of the sources at  *)
(* hand; they are modelled from the design description.                    *)
(***************************************************************************)
EXTENDS Integers, Sequences, FiniteSets, TLC

VARIABLES
    \* ---- MatMul<T>::ComputeInternal ----
    left_shape,     \* left_X->Shape()
    right_shape,    \* right_X->Shape()
    trans_A_,       \* configured transpose attribute of A
    trans_B_,       \* configured transpose attribute of B
    pc,             \* position of the control thread inside ComputeInternal
    transa,         \* local: effective transpose flag of A
    transb,         \* local: effective transpose flag of B
    helper,         \* local: MatMulComputeHelper after Compute
    ld,             \* locals lda, ldb, ldc
    strided,        \* locals stride_A, stride_B, stride_C, batch_count
    arrays,         \* left_arrays, right_arrays, output_arrays: CpuSpan and device copy
    calls,          \* BLAS calls issued, in order, with their arguments
    log,            \* fallible steps executed, in order, with their outcome
    status,         \* Status returned by ComputeInternal
    \* ---- Impl_MixedPrecisionScale ----
    kpc,            \* position of the host thread in Impl_MixedPrecisionScale
    types,          \* template arguments SrcT, DstT
    count,          \* argument count
    input_data,     \* input buffer
    scale_data,     \* the scalar, a 32-bit float in device memory
    output_data,    \* output buffer, followed by foreign cells
    grid,           \* launch configuration and kernel argument N
    lanes,          \* per launched lane: its position and registers
    writes          \* per output cell: the lanes that stored to it

mmvars == <<left_shape, right_shape, trans_A_, trans_B_, pc, transa, transb,
            helper, ld, strided, arrays, calls, log, status>>
scvars == <<kpc, types, count, input_data, scale_data, output_data, grid,
            lanes, writes>>
vars == <<mmvars, scvars>>

---------------------------------------------------------------------------
(* Bounds of the model *)

\* largest extent of a matrix (row, column or vector) dimension
MaxDim == 2
\* largest extent of a batch dimension
MaxBatchDim == 2
\* largest number of batch dimensions of an operand
MaxBatchRank == 2
\* largest number of batch slices of an operand
MaxSlices == 4
\* largest element count handed to Impl_MixedPrecisionScale
MaxCount == 3
\* GridDim::maxThreadsPerBlock, scaled down
ThreadsPerBlock == 2

---------------------------------------------------------------------------
(* Shapes *)

RECURSIVE Prod(_)
Prod(s) == IF s = <<>> THEN 1 ELSE Head(s) * Prod(Tail(s))

RECURSIVE SumTo(_, _)
SumTo(f, n) == IF n = 0 THEN 0 ELSE f[n] + SumTo(f, n - 1)

Max(a, b) == IF a >= b THEN a ELSE b

\* TensorShape::Size(): the element count
Size(shape) == Prod(shape)

\* TensorShape::SizeToDimension(d): product of the first d dimensions
SizeToDimension(shape, d) == Prod(SubSeq(shape, 1, d))

\* shape[i] with the source's zero-based index
Dim(shape, i) == shape[i + 1]

BatchShapes ==
    {b \in UNION {[1..r -> 1..MaxBatchDim] : r \in 0..MaxBatchRank} :
        Prod(b) <= MaxSlices}
MatrixShapes == [1..2 -> 0..MaxDim]
VectorShapes == [1..1 -> 0..MaxDim]
Shapes == VectorShapes \cup {b \o m : b \in BatchShapes, m \in MatrixShapes}

---------------------------------------------------------------------------
(* MatMulComputeHelper: numpy.matmul broadcasting of the two operand      *)
(* shapes, giving M, N, K, the output shape and one offset per output      *)
(* batch slice for the left operand, the right operand and the output.     *)

Ones(n) == [i \in 1..n |-> 1]

\* product of the extents after position d: the stride, in matrices, of d
BatchStride(dims, d) == Prod(SubSeq(dims, d + 1, Len(dims)))

\* the d-th coordinate of output slice i (zero-based), row-major
Digit(i, odims, d) == (i \div BatchStride(odims, d)) % odims[d]

\* index of the operand's matrix used by output slice i: a broadcast
\* dimension (extent 1) does not advance the operand
OperandIndex(i, odims, dims) ==
    SumTo([d \in 1..Len(odims) |->
              IF dims[d] = 1 THEN 0
              ELSE Digit(i, odims, d) * BatchStride(dims, d)], Len(odims))

NoHelper == [ok |-> FALSE]

\* number of dimensions after padding: the operands are padded in front
\* with 1s to a common rank, a 1-D right operand becomes (1,...,K,1)
NumDimsWithPad(ls, rs) ==
    Max(Len(ls), Len(rs)) + (IF Len(rs) = 1 THEN 1 ELSE 0)

LeftPadded(ls, rs) ==
    IF Len(rs) = 1
    THEN IF Len(ls) >= 2
         THEN SubSeq(ls, 1, Len(ls) - 1) \o <<1, ls[Len(ls)]>>
         ELSE <<1>> \o ls
    ELSE Ones(NumDimsWithPad(ls, rs) - Len(ls)) \o ls

RightPadded(ls, rs) ==
    IF Len(rs) = 1
    THEN Ones(NumDimsWithPad(ls, rs) - 2) \o <<rs[1], 1>>
    ELSE Ones(NumDimsWithPad(ls, rs) - Len(rs)) \o rs

\* every padded dimension but the last two broadcasts: the output extent is
\* the larger one, and an operand that differs from it must have extent 1
BroadcastOk(lb, rb) ==
    \A d \in 1..Len(lb) :
        LET o == Max(lb[d], rb[d])
        IN  (lb[d] = o \/ lb[d] = 1) /\ (rb[d] = o \/ rb[d] = 1)

\* ComputeBroadcastOffsets: per output slice, the offset of the left and
\* right matrix it is computed from, and its own
HelperResult(ob, lb, rb, M, N, K, tail) ==
    [ok |-> TRUE, M |-> M, N |-> N, K |-> K,
     output_shape |-> ob \o tail,
     left_offsets |->
         [j \in 1..Prod(ob) |-> OperandIndex(j - 1, ob, lb) * (M * K)],
     right_offsets |->
         [j \in 1..Prod(ob) |-> OperandIndex(j - 1, ob, rb) * (K * N)],
     output_offsets |->
         [j \in 1..Prod(ob) |-> (j - 1) * (M * N)]]

HelperBroadcast(lb, rb, M, N, K, tail) ==
    IF ~BroadcastOk(lb, rb) THEN NoHelper
    ELSE CHOOSE h \in {HelperResult(ob, lb, rb, M, N, K, tail) :
                          ob \in {[d \in 1..Len(lb) |-> Max(lb[d], rb[d])]}} : TRUE

\* MatMulComputeHelper::Compute
HelperCompute(ls, rs, ta, tb) ==
    LET ln == Len(ls)
        rn == Len(rs)
        has_1D_input == ln = 1 \/ rn = 1
        nb == NumDimsWithPad(ls, rs) - 2
        M == IF has_1D_input THEN 1
             ELSE IF ta THEN ls[ln] ELSE ls[ln - 1]
        K == IF ta /\ ln >= 2 THEN ls[ln - 1] ELSE ls[ln]
        N == IF rn = 1 THEN 1
             ELSE IF tb THEN rs[rn - 1] ELSE rs[rn]
        right_k == IF rn = 1 THEN rs[1]
                   ELSE IF tb THEN rs[rn] ELSE rs[rn - 1]
        tail == IF ~has_1D_input THEN <<M, N>>
                ELSE IF rn >= 2 THEN <<N>> ELSE <<>>
    IN  IF K # right_k THEN NoHelper
        ELSE CHOOSE h \in {HelperBroadcast(lb, rb, M, N, K, tail) :
                              lb \in {SubSeq(LeftPadded(ls, rs), 1, nb)},
                              rb \in {SubSeq(RightPadded(ls, rs), 1, nb)}} : TRUE

\* MatMulComputeHelper::OffsetToArrays: one pointer per offset, the base
\* pointer advanced by the offset
OffsetToArrays(p, offsets) ==
    [j \in 1..Len(offsets) |-> [base |-> p, off |-> offsets[j]]]

---------------------------------------------------------------------------
(* CanUseStridedBatchedGemm *)

\* mutant: a 2-D right operand is not given stride 0
CanUse_StrideBNeverZero(ls, rs, ta, tb) ==
    LET left_num_dims == Len(ls)
        right_num_dims == Len(rs)
        left_p == SizeToDimension(ls, left_num_dims - 2)
        left_k == IF ta THEN Dim(ls, left_num_dims - 2)
                  ELSE Dim(ls, left_num_dims - 1)
        right_p == SizeToDimension(rs, right_num_dims - 2)
        right_k == IF tb THEN Dim(rs, right_num_dims - 1)
                   ELSE Dim(rs, right_num_dims - 2)
        n == IF ta THEN Dim(ls, left_num_dims - 1)
             ELSE Dim(ls, left_num_dims - 2)
        m == IF tb THEN Dim(rs, right_num_dims - 2)
             ELSE Dim(rs, right_num_dims - 1)
    IN  IF ~(left_num_dims >= 3 /\ right_num_dims >= 2) THEN [ok |-> FALSE]
        ELSE IF right_num_dims >= 3 /\ left_p # right_p THEN [ok |-> FALSE]
        ELSE IF left_k # right_k THEN [ok |-> FALSE]
        ELSE [ok |-> TRUE,
              stride_A |-> n * left_k,
              stride_B |-> right_k * m,
              stride_C |-> n * m,
              batch_count |-> left_p]

\* mutant: the batch products of the operands are not compared
CanUse_NoBatchCheck(ls, rs, ta, tb) ==
    LET left_num_dims == Len(ls)
        right_num_dims == Len(rs)
        left_p == SizeToDimension(ls, left_num_dims - 2)
        left_k == IF ta THEN Dim(ls, left_num_dims - 2)
                  ELSE Dim(ls, left_num_dims - 1)
        right_p == SizeToDimension(rs, right_num_dims - 2)
        right_k == IF tb THEN Dim(rs, right_num_dims - 1)
                   ELSE Dim(rs, right_num_dims - 2)
        n == IF ta THEN Dim(ls, left_num_dims - 1)
             ELSE Dim(ls, left_num_dims - 2)
        m == IF tb THEN Dim(rs, right_num_dims - 2)
             ELSE Dim(rs, right_num_dims - 1)
    IN  IF ~(left_num_dims >= 3 /\ right_num_dims >= 2) THEN [ok |-> FALSE]
        ELSE IF left_k # right_k THEN [ok |-> FALSE]
        ELSE [ok |-> TRUE,
              stride_A |-> n * left_k,
              stride_B |-> IF right_num_dims = 2 THEN 0 ELSE right_k * m,
              stride_C |-> n * m,
              batch_count |-> left_p]

CanUseStridedBatchedGemm(ls, rs, ta, tb) ==
    LET left_num_dims == Len(ls)
        right_num_dims == Len(rs)
        left_p == SizeToDimension(ls, left_num_dims - 2)
        left_k == IF ta THEN Dim(ls, left_num_dims - 2)
                  ELSE Dim(ls, left_num_dims - 1)
        right_p == SizeToDimension(rs, right_num_dims - 2)
        right_k == IF tb THEN Dim(rs, right_num_dims - 1)
                   ELSE Dim(rs, right_num_dims - 2)
        n == IF ta THEN Dim(ls, left_num_dims - 1)
             ELSE Dim(ls, left_num_dims - 2)
        m == IF tb THEN Dim(rs, right_num_dims - 2)
             ELSE Dim(rs, right_num_dims - 1)
    IN  IF ~(left_num_dims >= 3 /\ right_num_dims >= 2) THEN [ok |-> FALSE]
        ELSE IF right_num_dims >= 3 /\ left_p # right_p THEN [ok |-> FALSE]
        ELSE IF left_k # right_k THEN [ok |-> FALSE]
        ELSE [ok |-> TRUE,
              stride_A |-> n * left_k,
              stride_B |-> IF right_num_dims = 2 THEN 0 ELSE right_k * m,
              stride_C |-> n * m,
              batch_count |-> left_p]

---------------------------------------------------------------------------
(* MatMul<T>::ComputeInternal *)

\* mutant: the flag of a 1-D operand is not suppressed
EffectiveTrans_Keep(shape, trans_) == trans_

\* "Ignore the transpose flag if rank of input being 1."
EffectiveTrans(shape, trans_) == IF Len(shape) = 1 THEN FALSE ELSE trans_

\* mutant: only the row extent is tested
OutputIsEmpty_RowsOnly(h) == h.M = 0

\* "Bail out early if the output is going to be empty"
OutputIsEmpty(h) == Size(h.output_shape) = 0

\* mutant: lda does not follow the transpose flag of A
LeadingDims_NoTranspose(h, ta, tb) ==
    [lda |-> h.K,
     ldb |-> IF tb THEN h.K ELSE h.N,
     ldc |-> h.N]

\* lda, ldb, ldc
LeadingDims(h, ta, tb) ==
    [lda |-> IF ta THEN h.M ELSE h.K,
     ldb |-> IF tb THEN h.K ELSE h.N,
     ldc |-> h.N]

\* mutant: the regularity test is tried before the single-offset test
SelectPath_StridedFirst(h, ls, rs, ta, tb) ==
    IF CanUseStridedBatchedGemm(ls, rs, ta, tb).ok THEN "strided"
    ELSE IF Len(h.output_offsets) = 1 THEN "gemm"
    ELSE "batched"

\* the if / else-if / fall-through that picks the BLAS entry point
SelectPath(h, ls, rs, ta, tb) ==
    IF Len(h.output_offsets) = 1 THEN "gemm"
    ELSE IF CanUseStridedBatchedGemm(ls, rs, ta, tb).ok THEN "strided"
    ELSE "batched"

\* mutant: the left array is filled from the right operand's offsets
PointerArrays_LeftFromRight(h) ==
    [built |-> TRUE,
     left |-> OffsetToArrays("left_X", h.right_offsets),
     right |-> OffsetToArrays("right_X", h.right_offsets),
     output |-> OffsetToArrays("Y", h.output_offsets),
     on_gpu |-> {}]

\* left_arrays, right_arrays, output_arrays filled by OffsetToArrays
PointerArrays(h) ==
    [built |-> TRUE,
     left |-> OffsetToArrays("left_X", h.left_offsets),
     right |-> OffsetToArrays("right_X", h.right_offsets),
     output |-> OffsetToArrays("Y", h.output_offsets),
     on_gpu |-> {}]

NoArrays == [built |-> FALSE]

\* Arguments of the three BLAS helpers, named as the BLAS names its
\* parameters: (transa, transb, m, n, k, alpha, A, lda, B, ldb, beta, C, ldc)
GemmArgs(h, l, ta, tb) ==
    [kind |-> "gemm",
     transa |-> tb, transb |-> ta,
     m |-> h.N, n |-> h.M, k |-> h.K,
     alpha |-> "alpha_",
     A |-> "right_X", lda |-> l.ldb,
     B |-> "left_X", ldb |-> l.lda,
     beta |-> "zero",
     C |-> "Y", ldc |-> l.ldc]

StridedBatchedArgs(h, l, st, ta, tb) ==
    [kind |-> "strided",
     transa |-> tb, transb |-> ta,
     m |-> h.N, n |-> h.M, k |-> h.K,
     alpha |-> "alpha_",
     A |-> "right_X", lda |-> l.ldb, stride_a |-> st.stride_B,
     B |-> "left_X", ldb |-> l.lda, stride_b |-> st.stride_A,
     beta |-> "zero",
     C |-> "Y", ldc |-> l.ldc, stride_c |-> st.stride_C,
     batch_count |-> st.batch_count]

BatchedArgs(h, l, ta, tb) ==
    [kind |-> "batched",
     transa |-> tb, transb |-> ta,
     m |-> h.N, n |-> h.M, k |-> h.K,
     alpha |-> "alpha_",
     A |-> "right_arrays", lda |-> l.ldb,
     B |-> "left_arrays", ldb |-> l.lda,
     beta |-> "zero",
     C |-> "output_arrays", ldc |-> l.ldc,
     batch_count |-> Len(h.output_offsets)]

\* mutant: a failed step does not end the dispatch
ReturnIfError_Ignore(ok, next) == next

\* ORT_RETURN_IF_ERROR / ROCBLAS_RETURN_IF_ERROR: where control goes after a
\* fallible step
ReturnIfError(ok, next) == IF ok THEN next ELSE "done"

Event(step, ok) == [step |-> step, ok |-> ok]

\* Entry of ComputeInternal up to the first device operation: the flags,
\* the shape helper, the output allocation, the early exit, the leading
\* dimensions and the choice of the call path.
Enter ==
    /\ pc = "entry"
    /\ \E ta \in {EffectiveTrans(left_shape, trans_A_)},
          tb \in {EffectiveTrans(right_shape, trans_B_)} :
       \E h \in {HelperCompute(left_shape, right_shape, ta, tb)} :
          /\ transa' = ta
          /\ transb' = tb
          /\ helper' = h
          /\ log' = Append(log, [step |-> "helper", ok |-> h.ok,
                                 args |-> <<left_shape, right_shape, ta, tb>>])
          /\ IF ~h.ok
             THEN /\ pc' = "done"
                  /\ status' = "fail"
                  /\ UNCHANGED <<ld, strided, arrays>>
             ELSE IF OutputIsEmpty(h)
             THEN /\ pc' = "done"
                  /\ status' = "ok"
                  /\ UNCHANGED <<ld, strided, arrays>>
             ELSE \E path \in {SelectPath(h, left_shape, right_shape, ta, tb)} :
                  /\ ld' = LeadingDims(h, ta, tb)
                  /\ status' = status
                  /\ pc' = IF path = "batched" THEN "copy_left" ELSE path
                  /\ strided' =
                       IF path = "gemm" THEN strided
                       ELSE CanUseStridedBatchedGemm(left_shape, right_shape, ta, tb)
                  /\ arrays' =
                       IF path = "batched" THEN PointerArrays(h) ELSE arrays
    /\ UNCHANGED <<left_shape, right_shape, trans_A_, trans_B_, calls>>
    /\ UNCHANGED scvars

\* rocblasGemmHelper: issued, it succeeds or fails, and ComputeInternal
\* returns either way
Gemm ==
    /\ pc = "gemm"
    /\ \E ok \in BOOLEAN :
          /\ calls' = Append(calls, GemmArgs(helper, ld, transa, transb))
          /\ log' = Append(log, Event("gemm", ok))
          /\ pc' = ReturnIfError(ok, "done")
          /\ status' = IF ok THEN "ok" ELSE "fail"
    /\ UNCHANGED <<left_shape, right_shape, trans_A_, trans_B_, transa, transb,
                   helper, ld, strided, arrays>>
    /\ UNCHANGED scvars

\* rocblasGemmStridedBatchedHelper
GemmStridedBatched ==
    /\ pc = "strided"
    /\ \E ok \in BOOLEAN :
          /\ calls' = Append(calls,
                             StridedBatchedArgs(helper, ld, strided, transa, transb))
          /\ log' = Append(log, Event("strided", ok))
          /\ pc' = ReturnIfError(ok, "done")
          /\ status' = IF ok THEN "ok" ELSE "fail"
    /\ UNCHANGED <<left_shape, right_shape, trans_A_, trans_B_, transa, transb,
                   helper, ld, strided, arrays>>
    /\ UNCHANGED scvars

\* left_arrays.CopyToGpu()
CopyLeft ==
    /\ pc = "copy_left"
    /\ \E ok \in BOOLEAN :
          /\ log' = Append(log, Event("copy_left", ok))
          /\ arrays' = IF ok THEN [arrays EXCEPT !.on_gpu = @ \cup {"left"}]
                       ELSE arrays
          /\ pc' = ReturnIfError(ok, "copy_right")
          /\ status' = IF ok THEN status ELSE "fail"
    /\ UNCHANGED <<left_shape, right_shape, trans_A_, trans_B_, transa, transb,
                   helper, ld, strided, calls>>
    /\ UNCHANGED scvars

\* right_arrays.CopyToGpu()
CopyRight ==
    /\ pc = "copy_right"
    /\ \E ok \in BOOLEAN :
          /\ log' = Append(log, Event("copy_right", ok))
          /\ arrays' = IF ok THEN [arrays EXCEPT !.on_gpu = @ \cup {"right"}]
                       ELSE arrays
          /\ pc' = ReturnIfError(ok, "copy_output")
          /\ status' = IF ok THEN status ELSE "fail"
    /\ UNCHANGED <<left_shape, right_shape, trans_A_, trans_B_, transa, transb,
                   helper, ld, strided, calls>>
    /\ UNCHANGED scvars

\* output_arrays.CopyToGpu()
CopyOutput ==
    /\ pc = "copy_output"
    /\ \E ok \in BOOLEAN :
          /\ log' = Append(log, Event("copy_output", ok))
          /\ arrays' = IF ok THEN [arrays EXCEPT !.on_gpu = @ \cup {"output"}]
                       ELSE arrays
          /\ pc' = ReturnIfError(ok, "batched")
          /\ status' = IF ok THEN status ELSE "fail"
    /\ UNCHANGED <<left_shape, right_shape, trans_A_, trans_B_, transa, transb,
                   helper, ld, strided, calls>>
    /\ UNCHANGED scvars

\* rocblasGemmBatchedHelper
GemmBatched ==
    /\ pc = "batched"
    /\ \E ok \in BOOLEAN :
          /\ calls' = Append(calls, BatchedArgs(helper, ld, transa, transb))
          /\ log' = Append(log, Event("batched", ok))
          /\ pc' = ReturnIfError(ok, "done")
          /\ status' = IF ok THEN "ok" ELSE "fail"
    /\ UNCHANGED <<left_shape, right_shape, trans_A_, trans_B_, transa, transb,
                   helper, ld, strided, arrays>>
    /\ UNCHANGED scvars

---------------------------------------------------------------------------
(* Impl_MixedPrecisionScale and the kernel _MixedPrecisionScale *)

ElementTypes == {"half", "float"}
\* element values of the input buffer (each representable in half and float)
SrcValues == {3, 1025}
\* values of the scalar
ScaleValues == {1, 3}

\* static_cast<float>(SrcT): every half and every float is a float
CastToFloat(SrcT, x) == x

\* round to nearest, ties to even, on the grid of multiples of q
RoundToMultiple(v, q) ==
    LET lo == (v \div q) * q
        r == v - lo
    IN  IF 2 * r < q THEN lo
        ELSE IF 2 * r > q THEN lo + q
        ELSE IF (lo \div q) % 2 = 0 THEN lo ELSE lo + q

\* float to half: 11 significant bits, so integers below 2^11 are exact and
\* those below 2^12 round to a multiple of 2
RoundToHalf(v) ==
    LET a == IF v < 0 THEN 0 - v ELSE v
        h == IF a < 2^11 THEN a ELSE RoundToMultiple(a, 2)
    IN  IF v < 0 THEN 0 - h ELSE h

\* static_cast<DstT>(float)
CastTo(DstT, v) == IF DstT = "half" THEN RoundToHalf(v) ELSE v

\* the largest HIP_LONG, 2^31 - 1
HipLongMax == (2^30 - 1) + 2^30

\* static_cast<HIP_LONG>(size_t): HIP_LONG is a 32-bit signed integer, a
\* value past its range wraps around by 2^32
ToHipLong(c) == IF c <= HipLongMax THEN c ELSE ((c - HipLongMax) - HipLongMax) - 2

\* mutant: the block count is rounded down
BlocksPerGrid_Floor(c) == ToHipLong(c \div ThreadsPerBlock)

\* int blocksPerGrid = CeilDiv(count, GridDim::maxThreadsPerBlock)
BlocksPerGrid(c) == ToHipLong((c + ThreadsPerBlock - 1) \div ThreadsPerBlock)

\* the lanes of a launch of dim3(blocksPerGrid) x dim3(maxThreadsPerBlock)
LaneIds(blocks) == (0 .. blocks - 1) \X (0 .. ThreadsPerBlock - 1)

\* CALCULATE_ELEMENTWISE_INDEX_OR_EXIT: blockDim.x * blockIdx.x + threadIdx.x
ElementIndex(lane) == ThreadsPerBlock * lane[1] + lane[2]

\* Impl_MixedPrecisionScale: the launch configuration and the launch
Launch ==
    /\ kpc = "host"
    /\ grid' = [blocksPerGrid |-> BlocksPerGrid(count), N |-> ToHipLong(count)]
    /\ lanes' = [l \in LaneIds(BlocksPerGrid(count)) |-> [at |-> "start", reg |-> 0]]
    /\ kpc' = "launched"
    /\ UNCHANGED <<types, count, input_data, scale_data, output_data, writes>>
    /\ UNCHANGED mmvars

\* a lane computes its index, leaves if it is past N, else reads its input
\* element and the scalar and multiplies
LaneCompute(l) ==
    /\ kpc = "launched"
    /\ lanes[l].at = "start"
    /\ lanes' = [lanes EXCEPT ![l] =
                    IF ElementIndex(l) >= grid.N
                    THEN [at |-> "exit", reg |-> 0]
                    ELSE [at |-> "store",
                          reg |-> scale_data *
                                  CastToFloat(types[1], input_data[ElementIndex(l)])]]
    /\ UNCHANGED <<kpc, types, count, input_data, scale_data, output_data, grid,
                   writes>>
    /\ UNCHANGED mmvars

\* the lane stores its result, converted to DstT, at its index
LaneStore(l) ==
    /\ kpc = "launched"
    /\ lanes[l].at = "store"
    /\ output_data' = [output_data EXCEPT ![ElementIndex(l)] =
                          CastTo(types[2], lanes[l].reg)]
    /\ writes' = [writes EXCEPT ![ElementIndex(l)] = @ \cup {l}]
    /\ lanes' = [lanes EXCEPT ![l].at = "exit"]
    /\ UNCHANGED <<kpc, types, count, input_data, scale_data, grid>>
    /\ UNCHANGED mmvars

ScaleIdle ==
    /\ kpc = "idle"
    /\ types = <<"float", "float">>
    /\ count = 0
    /\ input_data = <<>>
    /\ scale_data = 0
    /\ output_data = <<>>
    /\ grid = [blocksPerGrid |-> 0, N |-> 0]
    /\ lanes = <<>>
    /\ writes = <<>>

MatMulIdle ==
    /\ left_shape = <<>>
    /\ right_shape = <<>>
    /\ trans_A_ = FALSE
    /\ trans_B_ = FALSE
    /\ pc = "idle"
    /\ transa = FALSE
    /\ transb = FALSE
    /\ helper = NoHelper
    /\ ld = [lda |-> 0, ldb |-> 0, ldc |-> 0]
    /\ strided = [ok |-> FALSE]
    /\ arrays = NoArrays
    /\ calls = <<>>
    /\ log = <<>>
    /\ status = "none"

Init ==
    /\ left_shape \in Shapes
    /\ right_shape \in Shapes
    /\ trans_A_ \in BOOLEAN
    /\ trans_B_ \in BOOLEAN
    /\ pc = "entry"
    /\ transa = FALSE
    /\ transb = FALSE
    /\ helper = NoHelper
    /\ ld = [lda |-> 0, ldb |-> 0, ldc |-> 0]
    /\ strided = [ok |-> FALSE]
    /\ arrays = NoArrays
    /\ calls = <<>>
    /\ log = <<>>
    /\ status = "none"
    /\ ScaleIdle

Next ==
    \/ Enter
    \/ Gemm
    \/ GemmStridedBatched
    \/ CopyLeft
    \/ CopyRight
    \/ CopyOutput
    \/ GemmBatched

\* the buffers are indexed from 0, as in the source; the output buffer is
\* followed by one block's worth of cells that belong to someone else
InitScale ==
    /\ MatMulIdle
    /\ kpc = "host"
    /\ types \in ElementTypes \X ElementTypes
    /\ count \in 0..MaxCount
    /\ input_data \in [0 .. count - 1 -> SrcValues]
    /\ scale_data \in ScaleValues
    /\ output_data = [i \in 0 .. count + ThreadsPerBlock - 1 |-> 0]
    /\ writes = [i \in 0 .. count + ThreadsPerBlock - 1 |-> {}]
    /\ grid = [blocksPerGrid |-> 0, N |-> 0]
    /\ lanes = <<>>

NextScale ==
    \/ Launch
    \/ \E l \in DOMAIN lanes : LaneCompute(l)
    \/ \E l \in DOMAIN lanes : LaneStore(l)

SpecScale == InitScale /\ [][NextScale]_vars

Spec == Init /\ [][Next]_vars

---------------------------------------------------------------------------
(* Properties of MatMul<T>::ComputeInternal, checked under Spec *)

CopySteps == {"copy_left", "copy_right", "copy_output"}

\* a copy of a pointer array to the device failed
CopyFailed ==
    \E i \in 1..Len(log) : log[i].step \in CopySteps /\ ~log[i].ok

\* the dispatch has returned, its shape helper succeeded and its output has
\* at least one element
Dispatched ==
    /\ pc = "done"
    /\ helper.ok
    /\ Prod(helper.output_shape) # 0

\* the flags after the suppression on 1-D operands, from the inputs
FlagA == trans_A_ /\ Len(left_shape) # 1
FlagB == trans_B_ /\ Len(right_shape) # 1

\* the call kind the precedence of the triage asks for
ExpectedKind ==
    IF Len(helper.output_offsets) = 1 THEN "gemm"
    ELSE IF CanUseStridedBatchedGemm(left_shape, right_shape, FlagA, FlagB).ok
         THEN "strided"
    ELSE "batched"

\* C1 as stated: every dispatch whose shape helper succeeds and whose output
\* is not empty issues exactly one BLAS call, of the kind the precedence
\* gives (one output offset: unbatched; else regular: strided-batched; else
\* pointer-array batched).
C1_ExactlyOneCall ==
    Dispatched => /\ Len(calls) = 1
                  /\ calls[1].kind = ExpectedKind

\* C1 amended: at most one BLAS call is ever issued; a finished dispatch
\* whose helper succeeded and whose output is not empty has issued exactly
\* one, of the kind the precedence gives, unless a copy of a pointer array to
\* the device failed, which happens only on the pointer-array path and
\* leaves no call issued.
C1_OneCallUnlessCopyFails ==
    /\ Len(calls) <= 1
    /\ Dispatched =>
          /\ (Len(calls) = 1) <=> ~CopyFailed
          /\ Len(calls) = 1 => calls[1].kind = ExpectedKind
          /\ CopyFailed => ExpectedKind = "batched"

\* witness of C1: a finished pointer-array dispatch of two 3-D operands that issued its batched call
C1_Witness ==
    /\ Dispatched
    /\ Len(calls) = 1
    /\ calls[1].kind = "batched"
    /\ Len(left_shape) = 3
    /\ Len(right_shape) = 3

\* C2: whenever the strided-batched path is selected, the batch count equals
\* the number of output slices of the helper, and the helper's i-th left,
\* right and output offsets are i*stride_A, i*stride_B and i*stride_C.
C2_StridedMatchesHelper ==
    pc = "strided" =>
        /\ strided.batch_count = Len(helper.output_offsets)
        /\ \A j \in 1..Len(helper.output_offsets) :
              /\ helper.left_offsets[j] = (j - 1) * strided.stride_A
              /\ helper.right_offsets[j] = (j - 1) * strided.stride_B
              /\ helper.output_offsets[j] = (j - 1) * strided.stride_C

\* A is [P,N,K], not transposed, B is [K,M] or [P,K,M], the output is not
\* empty and the dispatch has returned
C3_Case ==
    /\ Dispatched
    /\ Len(left_shape) = 3
    /\ ~trans_A_
    /\ Len(right_shape) \in {2, 3}
    /\ right_shape[Len(right_shape) - 1] = left_shape[3]
    /\ Len(right_shape) = 3 => right_shape[1] = left_shape[1]

\* the strided-batched call C3 describes, with P, N, K, M read off the shapes
C3_StridedCall ==
    /\ Len(calls) = 1
    /\ calls[1].kind = "strided"
    /\ calls[1].batch_count = left_shape[1]
    /\ calls[1].stride_b = left_shape[2] * left_shape[3]
    /\ calls[1].stride_c = left_shape[2] * right_shape[Len(right_shape)]
    /\ calls[1].stride_a =
          IF Len(right_shape) = 2 THEN 0
          ELSE left_shape[3] * right_shape[Len(right_shape)]

\* C3 as stated: for every A = [P,N,K] (no transpose) and B = [K,M] or
\* [P,K,M] with a non-empty output the strided-batched path is taken with
\* batch count P, stride_A = N*K, stride_C = N*M and stride_B = 0 for
\* B = [K,M], K*M for B = [P,K,M].
C3_AlwaysStrided == C3_Case => C3_StridedCall

\* C3 amended: the same for P >= 2; for P = 1 the helper yields a single
\* output offset and the unbatched GEMM is issued instead.
C3_StridedWhenBatched ==
    C3_Case => IF left_shape[1] >= 2
               THEN C3_StridedCall
               ELSE Len(calls) = 1 /\ calls[1].kind = "gemm"

\* witness of C3: A = [2,N,K] against a 2-D B, strided call with stride_B = 0
C3_Witness ==
    /\ C3_Case
    /\ left_shape[1] = 2
    /\ Len(right_shape) = 2
    /\ Len(calls) = 1
    /\ calls[1].kind = "strided"
    /\ calls[1].stride_a = 0
    /\ calls[1].stride_b = 2

\* C4: once the helper has computed an output of zero elements the dispatch
\* has returned success, with no BLAS call issued, no pointer array built or
\* staged and no step after the helper executed.
C4_EmptyOutputNoCall ==
    (pc # "entry" /\ helper.ok /\ Prod(helper.output_shape) = 0) =>
        /\ pc = "done"
        /\ status = "ok"
        /\ calls = <<>>
        /\ arrays = NoArrays
        /\ Len(log) = 1

\* witness of C4: a 4-D transposed A whose output has several slices and no element
C4_Witness ==
    /\ pc = "done"
    /\ helper.ok
    /\ Prod(helper.output_shape) = 0
    /\ Len(left_shape) = 4
    /\ Len(helper.output_offsets) > 1
    /\ trans_A_
    /\ status = "ok"

\* C5: every BLAS call is issued with the operands swapped: first transpose
\* argument B's flag, second A's; dimensions (N, M, K); the right operand
\* with ldb (and stride_B or the right pointer array) before the left operand
\* with lda (and stride_A or the left pointer array); ldc = N; lda = M if A
\* is transposed else K, ldb = K if B is transposed else N.
C5_OperandsSwapped ==
    \A i \in 1..Len(calls) :
        LET c == calls[i]
        IN  /\ c.transa = FlagB
            /\ c.transb = FlagA
            /\ <<c.m, c.n, c.k>> = <<helper.N, helper.M, helper.K>>
            /\ c.lda = (IF FlagB THEN helper.K ELSE helper.N)
            /\ c.ldb = (IF FlagA THEN helper.M ELSE helper.K)
            /\ c.ldc = helper.N
            /\ c.kind \in {"gemm", "strided", "batched"}
            /\ c.kind \in {"gemm", "strided"} =>
                  <<c.A, c.B, c.C>> = <<"right_X", "left_X", "Y">>
            /\ c.kind = "strided" =>
                  /\ c.stride_a = strided.stride_B
                  /\ c.stride_b = strided.stride_A
                  /\ c.stride_c = strided.stride_C
            /\ c.kind = "batched" =>
                  <<c.A, c.B, c.C>> = <<"right_arrays", "left_arrays", "output_arrays">>

\* witness of C5: a strided call with B transposed, A not, and M, N, K apart
C5_Witness ==
    /\ pc = "done"
    /\ Len(calls) = 1
    /\ calls[1].kind = "strided"
    /\ calls[1].transa
    /\ ~calls[1].transb
    /\ helper.M # helper.K
    /\ helper.N # helper.K
    /\ calls[1].stride_a # calls[1].stride_b

\* the call path a dispatch took, from what it left behind
PathTaken ==
    IF arrays # NoArrays THEN "batched"
    ELSE IF strided.ok THEN "strided"
    ELSE "gemm"

\* the dispatch at hand passed to the helper, planned and issued exactly what
\* a dispatch on the same inputs with the configured flags tA, tB does
SameAsDispatchWith(tA, tB) ==
    \A ta \in {EffectiveTrans(left_shape, tA)},
       tb \in {EffectiveTrans(right_shape, tB)} :
    \A h \in {HelperCompute(left_shape, right_shape, ta, tb)} :
        /\ log[1].args = <<left_shape, right_shape, ta, tb>>
        /\ helper = h
        /\ (h.ok /\ Prod(h.output_shape) # 0) =>
              /\ PathTaken = SelectPath(h, left_shape, right_shape, ta, tb)
              /\ ld = LeadingDims(h, ta, tb)
              /\ PathTaken = "batched" => arrays.left = PointerArrays(h).left
              /\ \A i \in 1..Len(calls) :
                    calls[i] = IF PathTaken = "gemm"
                               THEN GemmArgs(h, LeadingDims(h, ta, tb), ta, tb)
                               ELSE BatchedArgs(h, LeadingDims(h, ta, tb), ta, tb)

\* C6: when A (respectively B) has exactly one dimension, the dispatch is
\* the same as the one with that operand's configured flag inverted: the
\* same shapes and flags go to the shape helper, the same call path is
\* chosen and the BLAS call carries the same transpose arguments, leading
\* dimensions and batch count (no strided call arises with a 1-D operand).
C6_VectorFlagIgnored ==
    pc # "entry" =>
        /\ Len(left_shape) = 1 =>
              PathTaken # "strided" /\ SameAsDispatchWith(~trans_A_, trans_B_)
        /\ Len(right_shape) = 1 =>
              PathTaken # "strided" /\ SameAsDispatchWith(trans_A_, ~trans_B_)

\* witness of C6: a 1-D A configured as transposed against a 3-D B, batched call issued
C6_Witness ==
    /\ pc = "done"
    /\ Len(left_shape) = 1
    /\ trans_A_
    /\ Len(right_shape) = 3
    /\ Len(calls) = 1
    /\ calls[1].kind = "batched"
    /\ ~calls[1].transb
    /\ calls[1].k = 2

\* the offsets of the helper, turned into pointers from a base pointer
PointersFrom(base, offsets, array) ==
    /\ Len(array) = Len(offsets)
    /\ \A j \in 1..Len(offsets) : array[j] = [base |-> base, off |-> offsets[j]]

\* the output has more than one batch slice and the regularity test fails
C8_Case ==
    /\ Dispatched
    /\ Len(helper.output_offsets) > 1
    /\ ~CanUseStridedBatchedGemm(left_shape, right_shape, FlagA, FlagB).ok

C8_Arrays ==
    /\ arrays # NoArrays
    /\ PointersFrom("left_X", helper.left_offsets, arrays.left)
    /\ PointersFrom("right_X", helper.right_offsets, arrays.right)
    /\ PointersFrom("Y", helper.output_offsets, arrays.output)
    /\ Len(arrays.left) = Len(helper.output_offsets)
    /\ Len(arrays.right) = Len(helper.output_offsets)

C8_Call ==
    /\ Len(calls) = 1
    /\ calls[1].kind = "batched"
    /\ calls[1].batch_count = Len(helper.output_offsets)
    /\ calls[1].batch_count = Len(arrays.left)
    /\ arrays.on_gpu = {"left", "right", "output"}

\* C8 as stated: when the output has more than one batch slice and the
\* regularity test fails, the three pointer arrays hold, per helper offset,
\* base pointer plus offset, and the pointer-array batched GEMM is issued
\* with batch count equal to the number of output offsets, the length of the
\* three arrays.
C8_FallbackIssuesBatched == C8_Case => C8_Arrays /\ C8_Call

\* C8 amended: the arrays are built as stated, and the batched GEMM is
\* issued as stated provided the three copies to the device succeed; if one
\* fails, no BLAS call is issued.
C8_FallbackBuildsArrays ==
    C8_Case => /\ C8_Arrays
               /\ IF CopyFailed THEN calls = <<>> ELSE C8_Call

\* witness of C8: a 2-D A broadcast over the four slices of a 4-D B
C8_Witness ==
    /\ C8_Case
    /\ C8_Call
    /\ Len(left_shape) = 2
    /\ Len(right_shape) = 4
    /\ Len(arrays.left) = 4
    /\ arrays.right[4].off > 0
    /\ arrays.left[4].off = 0

\* the regularity condition of C9, from the shapes and flags
C9_Regular(ls, rs, ta, tb) ==
    /\ Len(ls) >= 3
    /\ Len(rs) >= 2
    /\ Len(rs) >= 3 =>
          Prod(SubSeq(rs, 1, Len(rs) - 2)) = Prod(SubSeq(ls, 1, Len(ls) - 2))
    /\ (IF ta THEN ls[Len(ls) - 1] ELSE ls[Len(ls)])
          = (IF tb THEN rs[Len(rs)] ELSE rs[Len(rs) - 1])

\* the outputs C9 gives for a regular pair
C9_Outputs(ls, rs, ta, tb) ==
    LET n == IF ta THEN ls[Len(ls)] ELSE ls[Len(ls) - 1]
        k == IF ta THEN ls[Len(ls) - 1] ELSE ls[Len(ls)]
        m == IF tb THEN rs[Len(rs) - 1] ELSE rs[Len(rs)]
    IN  [ok |-> TRUE,
         stride_A |-> n * k,
         stride_B |-> IF Len(rs) = 2 THEN 0 ELSE k * m,
         stride_C |-> n * m,
         batch_count |-> Prod(SubSeq(ls, 1, Len(ls) - 2))]

\* C9: CanUseStridedBatchedGemm returns true exactly for a regular pair (A
\* of >= 3 dimensions, B of >= 2, equal batch products when B has >= 3, equal
\* contraction extents under the flags), and then sets batch_count to A's
\* batch product, stride_A = n*k, stride_B = 0 for a 2-D B else k*m, and
\* stride_C = n*m; the strided-batched path runs with these values.
C9_RegularityTest ==
    /\ \A ta \in BOOLEAN, tb \in BOOLEAN :
          \A r \in {CanUseStridedBatchedGemm(left_shape, right_shape, ta, tb)} :
              /\ r.ok <=> C9_Regular(left_shape, right_shape, ta, tb)
              /\ r.ok => r = C9_Outputs(left_shape, right_shape, ta, tb)
    /\ pc = "strided" =>
          /\ C9_Regular(left_shape, right_shape, FlagA, FlagB)
          /\ strided = C9_Outputs(left_shape, right_shape, FlagA, FlagB)

\* witness of C9: a transposed 4-D A of four slices against a 2-D B on the strided path
C9_Witness ==
    /\ pc = "strided"
    /\ FlagA
    /\ Len(left_shape) = 4
    /\ Len(right_shape) = 2
    /\ strided.batch_count = 4
    /\ strided.stride_B = 0
    /\ strided.stride_A = 2
    /\ strided.stride_C = 4

\* C10: success is returned only if every executed step succeeded; the first
\* failure (shape helper, a copy to the device, the BLAS call) ends the
\* dispatch with that failure as its status, no step is retried and none
\* follows it; the batched GEMM is issued only after the copies of the left,
\* right and output pointer arrays were enqueued, in this order, and a
\* failed copy means no GEMM call.
C10_FirstFailureReturned ==
    /\ \A i \in 1..Len(log) : ~log[i].ok =>
          /\ i = Len(log)
          /\ pc = "done"
          /\ status = "fail"
    /\ status = "ok" => pc = "done" /\ \A i \in 1..Len(log) : log[i].ok
    /\ status = "fail" => pc = "done" /\ ~log[Len(log)].ok
    /\ pc = "done" => status \in {"ok", "fail"}
    /\ \A i \in 1..Len(log), j \in 1..Len(log) :
          log[i].step = log[j].step => i = j
    /\ \A i \in 1..Len(log) : log[i].step = "batched" =>
          /\ i = 5
          /\ <<log[2].step, log[3].step, log[4].step>>
                = <<"copy_left", "copy_right", "copy_output">>
          /\ arrays.on_gpu = {"left", "right", "output"}
    /\ CopyFailed => calls = <<>>
    /\ Len(calls) = Cardinality({i \in 1..Len(log) :
                                    log[i].step \in {"gemm", "strided", "batched"}})

\* witness of C10: the copy of the output pointer array fails after two good copies
C10_Witness ==
    /\ pc = "done"
    /\ status = "fail"
    /\ Len(log) = 4
    /\ log[4].step = "copy_output"
    /\ arrays.on_gpu = {"left", "right"}
    /\ calls = <<>>

---------------------------------------------------------------------------
(* Properties of Impl_MixedPrecisionScale, checked under SpecScale *)

\* cast<DstT>(scalar * cast<float>(input[i]))
Scaled(i) ==
    CastTo(types[2], scale_data * CastToFloat(types[1], input_data[i]))

KernelComplete ==
    /\ kpc = "launched"
    /\ \A l \in DOMAIN lanes : lanes[l].at = "exit"

===========================================================================
